---- MODULE Spec2Model ----
(***************************************************************************)
(* SecureJoinVFS (util/join.go): the symlink-aware, root-scoped path join. *)
(* Paths are sequences of one-character strings; "/" is the separator.    *)
(***************************************************************************)
EXTENDS Integers, Sequences, FiniteSets, TLC

Sep == "/"

(* ------------------------------------------------------------------ *)
(* Errors: a Go error value is a record; Op = "" means a bare errno,   *)
(* Op # "" an *os.PathError wrapping Err.                              *)
(* ------------------------------------------------------------------ *)
NoErr == [Err |-> "nil", Op |-> "", Path |-> <<>>]

Errno(e) == [Err |-> e, Op |-> "", Path |-> <<>>]

PathError(op, p, e) == [Err |-> e, Op |-> op, Path |-> p]

\* mutant: ENOTDIR is not in the class
IsNotExistNarrow(err) == err.Err \in {"ErrNotExist", "ENOENT"}

\* errors.Is unwraps a PathError, so only Err decides the class.
IsNotExist(err) == err.Err \in {"ErrNotExist", "ENOTDIR", "ENOENT"}

(* ------------------------------------------------------------------ *)
(* String helpers of the Go standard library used by the loop.         *)
(* ------------------------------------------------------------------ *)
\* strings.IndexRune(s, '/') from position i on: 1-based position of the first
\* separator, 0 if none
RECURSIVE IndexFrom(_, _)
IndexFrom(s, i) ==
  IF i > Len(s) THEN 0 ELSE IF s[i] = Sep THEN i ELSE IndexFrom(s, i + 1)

IndexRune(s) == IndexFrom(s, 1)

\* p of "p, unsafePath = unsafePath[:i], unsafePath[i+1:]"
NextP(s) == LET i == IndexRune(s) IN IF i = 0 THEN s ELSE SubSeq(s, 1, i - 1)

\* the new unsafePath of the same statement
NextRest(s) == LET i == IndexRune(s) IN IF i = 0 THEN <<>> ELSE SubSeq(s, i + 1, Len(s))

HasPrefix(s, pre) == Len(pre) <= Len(s) /\ SubSeq(s, 1, Len(pre)) = pre

IsAbs(s) == HasPrefix(s, <<Sep>>)

\* the components of s between separators (empty components kept)
RECURSIVE Split(_)
Split(s) ==
  LET i == IndexRune(s)
  IN IF i = 0 THEN <<s>> ELSE <<SubSeq(s, 1, i - 1)>> \o Split(SubSeq(s, i + 1, Len(s)))

RECURSIVE JoinSep(_)
JoinSep(cs) ==
  IF cs = <<>> THEN <<>>
  ELSE IF Len(cs) = 1 THEN cs[1]
  ELSE cs[1] \o <<Sep>> \o JoinSep(Tail(cs))

\* the component stack of filepath.Clean: "" and "." are dropped, ".." pops a
\* real component, is dropped at the root of a rooted path and kept otherwise
RECURSIVE CleanStack(_, _, _)
CleanStack(cs, out, rooted) ==
  IF cs = <<>> THEN out
  ELSE LET c == Head(cs) IN
    IF c = <<>> \/ c = <<".">> THEN CleanStack(Tail(cs), out, rooted)
    ELSE IF c = <<".", ".">> THEN
      IF out # <<>> /\ out[Len(out)] # <<".", ".">>
      THEN CleanStack(Tail(cs), SubSeq(out, 1, Len(out) - 1), rooted)
      ELSE IF rooted THEN CleanStack(Tail(cs), out, rooted)
      ELSE CleanStack(Tail(cs), Append(out, c), rooted)
    ELSE CleanStack(Tail(cs), Append(out, c), rooted)

\* filepath.Clean
Clean(s) ==
  IF s = <<>> THEN <<".">>
  ELSE LET rooted == s[1] = Sep
           out == CleanStack(Split(s), <<>>, rooted)
       IN IF rooted THEN <<Sep>> \o JoinSep(out)
          ELSE IF out = <<>> THEN <<".">> ELSE JoinSep(out)

(* ------------------------------------------------------------------ *)
(* The lookup capability (VFS): a function from names to entries.      *)
(* An entry is what Lstat and Readlink answer for that name.           *)
(* ------------------------------------------------------------------ *)
\* an entry Lstat fails on
ErrEntry(e) == [err |-> e, symlink |-> FALSE, dir |-> FALSE, dest |-> <<>>, rlerr |-> NoErr]

\* a regular file or a directory
NodeEntry(isDir) == [err |-> NoErr, symlink |-> FALSE, dir |-> isDir, dest |-> <<>>, rlerr |-> NoErr]

\* a symbolic link; isDir is what fi.IsDir() answers for the link's FileInfo
LinkEntry(target, isDir) == [err |-> NoErr, symlink |-> TRUE, dir |-> isDir, dest |-> target, rlerr |-> NoErr]

\* a symbolic link Readlink fails on
BadLinkEntry(e) == [err |-> NoErr, symlink |-> TRUE, dir |-> FALSE, dest |-> <<>>, rlerr |-> e]

\* vfs.Lstat(name): a name the capability does not know does not exist
Lstat(vfs, name) == IF name \in DOMAIN vfs THEN vfs[name] ELSE ErrEntry(Errno("ENOENT"))

\* vfs.Readlink(name)
Readlink(vfs, name) ==
  LET e == Lstat(vfs, name) IN
    IF e.err # NoErr THEN [dest |-> <<>>, err |-> e.err]
    ELSE IF ~e.symlink THEN [dest |-> <<>>, err |-> Errno("EINVAL")]
    ELSE [dest |-> e.dest, err |-> e.rlerr]

(* ------------------------------------------------------------------ *)
(* SecureJoinVFS: the pieces of the loop body                           *)
(* ------------------------------------------------------------------ *)
\* the ceiling of "if n > 255"
MaxSymlinks == 255

\* mutant: the ceiling is met one link early
DepthExceededEarly(n) == n >= MaxSymlinks - 1

\* mutant: the ceiling is met one link late
DepthExceededLate(n) == n > MaxSymlinks + 1

\* mutant: the depth check is forgotten
DepthExceededNever(n) == FALSE

DepthExceeded(n) == n > MaxSymlinks

\* &os.PathError{Op: "SecureJoin", Path: root + "/" + unsafePath, Err: syscall.ELOOP}
LoopError(root, unsafePath) == PathError("SecureJoin", root \o <<Sep>> \o unsafePath, "ELOOP")

\* mutant: cleaned without the leading separator, as a relative path
CleanPRelative(path, p) == Clean(path \o p)

\* mutant: the component is cleaned without the buffer before it
CleanPNoBuffer(path, p) == Clean(<<Sep>> \o p)

\* cleanP := filepath.Clean(string(filepath.Separator) + path.String() + p)
CleanP(path, p) == Clean(<<Sep>> \o path \o p)

\* mutant: the cleaned component path is looked up without root before it
FullPNoRoot(root, cleanP) == Clean(cleanP)

\* fullP := filepath.Clean(root + cleanP)
FullP(root, cleanP) == Clean(root \o cleanP)

\* mutant: only a permission error is fatal
LstatFatalPermOnly(e) == e.err.Err = "EPERM"

\* err != nil && !IsNotExist(err)
LstatFatal(e) == e.err # NoErr /\ ~IsNotExist(e.err)

\* mutant: a link whose FileInfo claims to be a directory passes for one
NotSymlinkOrDir(e) == IsNotExist(e.err) \/ ~e.symlink \/ e.dir

\* mutant: the mode of the entry is not looked at
NotSymlinkMissingOnly(e) == IsNotExist(e.err)

\* IsNotExist(err) || fi.Mode()&os.ModeSymlink == 0
NotSymlink(e) == IsNotExist(e.err) \/ ~e.symlink

\* mutant: the separator after the component is forgotten
AcceptNoSep(path, p) == path \o p

\* path.WriteString(p); path.WriteRune(filepath.Separator)
Accept(path, p) == path \o p \o <<Sep>>

\* mutant: the negation of fi.IsDir() is forgotten
ShortCircuitsDirOnly(root, e, dest) == e.dir /\ HasPrefix(dest, root \o <<Sep>>)

\* !fi.IsDir() && strings.HasPrefix(dest, root+string(filepath.Separator))
ShortCircuits(root, e, dest) == ~e.dir /\ HasPrefix(dest, root \o <<Sep>>)

\* mutant: the buffer survives an absolute target
PathKept(path, dest) == path

\* the buffer after a dereference: an absolute target resets it
PathAfterLink(path, dest) == IF IsAbs(dest) THEN <<>> ELSE path

\* mutant: the target is put behind the unparsed path
ExpandBehind(dest, rest) == rest \o <<Sep>> \o dest

\* unsafePath = dest + string(filepath.Separator) + unsafePath
Expand(dest, rest) == dest \o <<Sep>> \o rest

\* mutant: the final join without root
FinalPathNoRoot(root, path) == Clean(<<Sep>> \o path)

\* mutant: the outer filepath.Clean of the final join is forgotten
FinalPathUnclean(root, path) == root \o Clean(<<Sep>> \o path)

\* filepath.Clean(root + filepath.Clean(string(filepath.Separator) + path.String()))
FinalPath(root, path) == Clean(root \o Clean(<<Sep>> \o path))

\* the locals of one call before the first iteration; pc is the position in
\* the code: "loop" the loop head, "lstat" before vfs.Lstat(fullP), "readlink"
\* before n++ and vfs.Readlink(fullP), "done" after a return
Start(unsafePath) ==
  [unsafePath |-> unsafePath, path |-> <<>>, n |-> 0, pc |-> "loop",
   p |-> <<>>, fullP |-> <<>>, fi |-> NodeEntry(FALSE),
   ret |-> <<>>, err |-> NoErr, last |-> "Start",
   nLstat |-> 0, nReadlink |-> 0, lastOp |-> "none", lastPath |-> <<>>]

\* a return statement
Return(s, ret, err, how) == [s EXCEPT !.pc = "done", !.ret = ret, !.err = err, !.last = how]

\* the bookkeeping of one vfs call
Called(s, op, name) ==
  [s EXCEPT !.lastOp = op, !.lastPath = name,
            !.nLstat = IF op = "Lstat" THEN @ + 1 ELSE @,
            !.nReadlink = IF op = "Readlink" THEN @ + 1 ELSE @]

\* the loop head up to fullP: the exit of the loop, the depth check, the split
\* of the next component and the clamp at the root
AtLoop(root, s) ==
  IF s.unsafePath = <<>> THEN Return(s, FinalPath(root, s.path), NoErr, "Finish")
  ELSE IF DepthExceeded(s.n) THEN Return(s, <<>>, LoopError(root, s.unsafePath), "DepthFail")
  ELSE
    LET p == NextP(s.unsafePath)
        rest == NextRest(s.unsafePath)
        cleanP == CleanP(s.path, p)
    IN IF cleanP = <<Sep>>
       THEN [s EXCEPT !.path = <<>>, !.unsafePath = rest, !.p = p, !.last = "Clamp"]
       ELSE [s EXCEPT !.unsafePath = rest, !.p = p, !.fullP = FullP(root, cleanP),
                      !.pc = "lstat", !.last = "NextComponent"]

\* fi, err := vfs.Lstat(fullP) and the two tests on its answer
AtLstat(vfs, s) ==
  LET e == Lstat(vfs, s.fullP)
      s1 == Called(s, "Lstat", s.fullP)
  IN IF LstatFatal(e) THEN Return(s1, <<>>, e.err, "LstatFail")
     ELSE IF NotSymlink(e)
       THEN [s1 EXCEPT !.path = Accept(s.path, s.p), !.pc = "loop", !.last = "AcceptComponent"]
     ELSE [s1 EXCEPT !.fi = e, !.pc = "readlink", !.last = "FoundSymlink"]

\* n++, dest, err := vfs.Readlink(fullP) and the rest of the loop body
AtReadlink(root, vfs, s) ==
  LET s1 == Called([s EXCEPT !.n = @ + 1], "Readlink", s.fullP)
      rl == Readlink(vfs, s.fullP)
  IN IF rl.err # NoErr THEN Return(s1, <<>>, rl.err, "ReadlinkFail")
     ELSE IF IsAbs(rl.dest) /\ ShortCircuits(root, s.fi, rl.dest)
       THEN Return(s1, Clean(rl.dest), NoErr, "ShortCircuit")
     ELSE [s1 EXCEPT !.path = PathAfterLink(s.path, rl.dest),
                     !.unsafePath = Expand(rl.dest, s.unsafePath),
                     !.pc = "loop",
                     !.last = IF IsAbs(rl.dest) THEN "ExpandAbsolute" ELSE "ExpandRelative"]

\* one step of the call from position s.pc
Body(root, vfs, s) ==
  IF s.pc = "loop" THEN AtLoop(root, s)
  ELSE IF s.pc = "lstat" THEN AtLstat(vfs, s)
  ELSE AtReadlink(root, vfs, s)

\* the whole call, as a function of its arguments
RECURSIVE Run(_, _, _)
Run(root, vfs, s) == IF s.pc = "done" THEN s ELSE Run(root, vfs, Body(root, vfs, s))

SecureJoinVFS(root, unsafePath, vfs) == Run(root, vfs, Start(unsafePath))

(* ------------------------------------------------------------------ *)
(* The inputs of a call                                                *)
(* ------------------------------------------------------------------ *)
MaxComps == 2

Roots == { <<"/", "r">>, <<"/", "r", "/">>, <<"/">> }

Names == { <<"a">>, <<"b">> }

Comps == { <<>>, <<".">>, <<".", ".">> } \cup Names

\* every unsafePath of at most MaxComps components
Paths == { JoinSep(cs) : cs \in UNION { [1..k -> Comps] : k \in 0..MaxComps } }

\* paths with repeated separators and "." between and after their components
DottedPaths ==
  { <<"a", Sep, Sep, "b">>, <<Sep, Sep, "b", Sep, ".", Sep, "a">>, <<"b", Sep, Sep, "a", Sep, ".">> }

\* a symlink target inside root that spells root out, and one that leaves it by ".."
InRoot(root) == root \o <<Sep, "b">>

ViaDotDot(root) == root \o <<Sep, ".", ".", Sep, "b">>

\* root/a: absent, unreadable, a file, or a link (relative, absolute outside
\* root, absolute and root-prefixed); a link of a never names a itself
EntriesA(root) ==
  { ErrEntry(Errno("ENOENT")), ErrEntry(Errno("EACCES")), NodeEntry(FALSE),
    BadLinkEntry(Errno("ENOENT")),
    LinkEntry(<<".", ".">>, FALSE), LinkEntry(<<"b">>, FALSE), LinkEntry(<<Sep, "b">>, FALSE),
    LinkEntry(InRoot(root), FALSE), LinkEntry(InRoot(root), TRUE),
    LinkEntry(ViaDotDot(root), FALSE) }

\* root/b: absent in two ways, unreadable, a file, a directory, or a link to ".."
EntriesB ==
  { ErrEntry(Errno("ENOENT")), ErrEntry(PathError("lstat", <<>>, "ENOTDIR")),
    ErrEntry(Errno("EACCES")), NodeEntry(FALSE), NodeEntry(TRUE),
    LinkEntry(<<".", ".">>, FALSE) }

\* root/b/a: absent, or a link to ".." or to the absolute /b
EntriesBA ==
  { ErrEntry(Errno("ENOENT")), LinkEntry(<<".", ".">>, FALSE), LinkEntry(<<Sep, "b">>, FALSE) }

NameA(root) == FullP(root, <<Sep, "a">>)

NameB(root) == FullP(root, <<Sep, "b">>)

NameBA(root) == FullP(root, <<Sep, "b", Sep, "a">>)

\* the capability that knows a, b and b/a below root; the links of these
\* form no cycle (the chains below do)
SmallVFS(root, ea, eb, eba) ==
  (NameA(root) :> ea) @@ (NameB(root) :> eb) @@ (NameBA(root) :> eba)

ChainRoot == <<"/", "r">>

ChainLens == { 1, 2, 254, 255, 256 }

LinkName(k) == <<ToString(k)>>

\* the target naming link k: relative, or absolute (to be re-rooted)
LinkTarget(k, abs) == IF abs THEN <<Sep>> \o LinkName(k) ELSE LinkName(k)

\* links 1..len below ChainRoot, link k pointing to k+1; the last one points to
\* the regular file f, or back to link 1 when closed
ChainVFS(len, closed, abs) ==
  [ nm \in { ChainRoot \o <<Sep>> \o LinkName(k) : k \in 1..len } \cup { ChainRoot \o <<Sep, "f">> } |->
      IF nm = ChainRoot \o <<Sep, "f">> THEN NodeEntry(FALSE)
      ELSE LET k == CHOOSE j \in 1..len : nm = ChainRoot \o <<Sep>> \o LinkName(j)
           IN LinkEntry(IF k < len THEN LinkTarget(k + 1, abs)
                        ELSE IF closed THEN LinkTarget(1, abs) ELSE <<"f">>, FALSE) ]

\* link 1 alone, link 1 after two components that are no symlinks, and link 1
\* between a "." and two separators
ChainPaths ==
  { LinkName(1), <<"b", Sep, ".", ".", Sep>> \o LinkName(1), <<".", Sep>> \o LinkName(1) \o <<Sep, Sep>> }

(* ------------------------------------------------------------------ *)
(* The state machine: one call of SecureJoinVFS, one action per branch *)
(* ------------------------------------------------------------------ *)
VARIABLES root, arg, vfs, unsafePath, path, n, pc, p, fullP, fi, ret, err, last,
          nLstat, nReadlink, lastOp, lastPath,
          calls   \* the calls of other goroutines that run at the same time

vars == <<root, arg, vfs, unsafePath, path, n, pc, p, fullP, fi, ret, err, last,
          nLstat, nReadlink, lastOp, lastPath, calls>>

\* the locals as one record
St ==
  [unsafePath |-> unsafePath, path |-> path, n |-> n, pc |-> pc,
   p |-> p, fullP |-> fullP, fi |-> fi,
   ret |-> ret, err |-> err, last |-> last,
   nLstat |-> nLstat, nReadlink |-> nReadlink, lastOp |-> lastOp, lastPath |-> lastPath]

Locals(s) ==
  /\ unsafePath = s.unsafePath /\ path = s.path /\ n = s.n /\ pc = s.pc
  /\ p = s.p /\ fullP = s.fullP /\ fi = s.fi
  /\ ret = s.ret /\ err = s.err /\ last = s.last
  /\ nLstat = s.nLstat /\ nReadlink = s.nReadlink
  /\ lastOp = s.lastOp /\ lastPath = s.lastPath

Locals2(s) ==
  /\ unsafePath' = s.unsafePath /\ path' = s.path /\ n' = s.n /\ pc' = s.pc
  /\ p' = s.p /\ fullP' = s.fullP /\ fi' = s.fi
  /\ ret' = s.ret /\ err' = s.err /\ last' = s.last
  /\ nLstat' = s.nLstat /\ nReadlink' = s.nReadlink
  /\ lastOp' = s.lastOp /\ lastPath' = s.lastPath

InitSmall ==
  /\ root \in Roots
  /\ \E ea \in EntriesA(root), eb \in EntriesB, eba \in EntriesBA :
        vfs = SmallVFS(root, ea, eb, eba)
  /\ arg \in Paths \cup DottedPaths

InitChain ==
  /\ root = ChainRoot
  /\ arg \in ChainPaths
  /\ \E len \in ChainLens, closed \in BOOLEAN, abs \in BOOLEAN : vfs = ChainVFS(len, closed, abs)

Init ==
  /\ InitSmall \/ InitChain
  /\ Locals(Start(arg))
  /\ calls = <<>>

\* the step of Body from the current position, when it takes the named branch
Take(branch) ==
  LET t == Body(root, vfs, St) IN t.last = branch /\ Locals2(t)

\* the code after the loop: the cleaned join is returned
Finish ==
  /\ pc = "loop"
  /\ unsafePath = <<>>
  /\ Take("Finish")
  /\ UNCHANGED <<root, arg, vfs, calls>>

\* if n > 255: the ELOOP error is returned
DepthFail ==
  /\ pc = "loop"
  /\ unsafePath # <<>>
  /\ DepthExceeded(n)
  /\ Take("DepthFail")
  /\ UNCHANGED <<root, arg, vfs, calls>>

\* the next component leads to the root: the buffer is reset
Clamp ==
  /\ pc = "loop"
  /\ unsafePath # <<>>
  /\ Take("Clamp")
  /\ UNCHANGED <<root, arg, vfs, calls>>

\* the next component is split off and fullP computed
NextComponent ==
  /\ pc = "loop"
  /\ unsafePath # <<>>
  /\ Take("NextComponent")
  /\ UNCHANGED <<root, arg, vfs, calls>>

\* Lstat fails outside the not-found class
LstatFail ==
  /\ pc = "lstat"
  /\ Take("LstatFail")
  /\ UNCHANGED <<root, arg, vfs, calls>>

\* no symlink at fullP: the component joins the buffer
AcceptComponent ==
  /\ pc = "lstat"
  /\ Take("AcceptComponent")
  /\ UNCHANGED <<root, arg, vfs, calls>>

\* a symlink at fullP
FoundSymlink ==
  /\ pc = "lstat"
  /\ Take("FoundSymlink")
  /\ UNCHANGED <<root, arg, vfs, calls>>

\* Readlink fails
ReadlinkFail ==
  /\ pc = "readlink"
  /\ Take("ReadlinkFail")
  /\ UNCHANGED <<root, arg, vfs, calls>>

\* a root-prefixed absolute target of a non-directory is returned
ShortCircuit ==
  /\ pc = "readlink"
  /\ Take("ShortCircuit")
  /\ UNCHANGED <<root, arg, vfs, calls>>

\* an absolute target replaces the buffer
ExpandAbsolute ==
  /\ pc = "readlink"
  /\ Take("ExpandAbsolute")
  /\ UNCHANGED <<root, arg, vfs, calls>>

\* a relative target is put before the unparsed path
ExpandRelative ==
  /\ pc = "readlink"
  /\ Take("ExpandRelative")
  /\ UNCHANGED <<root, arg, vfs, calls>>

Next ==
  \/ Finish
  \/ DepthFail
  \/ Clamp
  \/ NextComponent
  \/ LstatFail
  \/ AcceptComponent
  \/ FoundSymlink
  \/ ReadlinkFail
  \/ ShortCircuit
  \/ ExpandAbsolute
  \/ ExpandRelative

Spec == Init /\ [][Next]_vars

\* the call is straight-line code that waits for nothing: while it has not
\* returned it goes on taking steps. This is WF_vars(Next) with the enabling
\* condition of Next written out: Next is enabled exactly when pc # "done"
FairSpec == Spec /\ ([]<>(pc = "done") \/ []<><<Next>>_vars)

(* ------------------------------------------------------------------ *)
(* Several calls at once over one filesystem                           *)
(* ------------------------------------------------------------------ *)
\* the number of goroutines calling SecureJoinVFS at the same time
MaxCalls == 2

\* one call of a goroutine: its argument, its locals, the vfs calls it made
NewCall(a) == [arg |-> a, s |-> Start(a), log |-> <<>>]

\* mutant: the buffer is one variable of the package, here the one call 1 writes
LocalsSharedBuffer(cs, i) == [cs[i].s EXCEPT !.path = cs[1].s.path]

\* path, n, p and the rest are declared inside the function: every call has its own
LocalsOf(cs, i) == cs[i].s

\* the vfs call made by the step from s to t, if it made one
Lookups(s, t) ==
  IF t.nLstat # s.nLstat \/ t.nReadlink # s.nReadlink
  THEN << <<t.lastOp, t.lastPath>> >> ELSE <<>>

\* one step of call i among the calls cs
StepCall(r, v, cs, i) ==
  LET s == LocalsOf(cs, i)
      t == Body(r, v, s)
  IN [cs[i] EXCEPT !.s = t, !.log = @ \o Lookups(s, t)]

\* the call run alone, from its start to its return
RECURSIVE RunAlone(_, _, _)
RunAlone(r, v, cs) ==
  IF cs[1].s.pc = "done" THEN cs[1] ELSE RunAlone(r, v, [cs EXCEPT ![1] = StepCall(r, v, cs, 1)])

Alone(r, v, a) == RunAlone(r, v, <<NewCall(a)>>)

\* the paths the goroutines resolve
ConcPaths == { <<"a", Sep, "b">>, <<"b", Sep, "a", Sep, "a">> }

InitConc ==
  /\ root = ChainRoot
  /\ \E ea \in EntriesA(root) :
        vfs = SmallVFS(root, ea, NodeEntry(TRUE), LinkEntry(<<".", ".">>, FALSE))
  /\ arg = <<>>
  /\ Locals(Start(arg))
  /\ \E as \in [1..MaxCalls -> ConcPaths] : calls = [i \in 1..MaxCalls |-> NewCall(as[i])]

\* the scheduler lets one of the running calls take its next step
CallStep ==
  /\ \E i \in DOMAIN calls :
        /\ calls[i].s.pc # "done"
        /\ calls' = [calls EXCEPT ![i] = StepCall(root, vfs, calls, i)]
  /\ UNCHANGED <<root, arg, vfs, unsafePath, path, n, pc, p, fullP, fi, ret, err, last,
                 nLstat, nReadlink, lastOp, lastPath>>

ConcSpec == InitConc /\ [][CallStep]_vars

(* ------------------------------------------------------------------ *)
(* Properties                                                          *)
(* ------------------------------------------------------------------ *)
Done == pc = "done"

\* a successful return that is not the short-circuit of the absolute symlink
FinishedOk == Done /\ err = NoErr /\ last = "Finish"

CleanRoot == Clean(root)

\* x is r, or r followed by a separator and more
BelowOrEqual(x, r) == x = r \/ HasPrefix(x, r \o <<Sep>>)

\* x is r or a descendant of r, component by component ("/" has no separator
\* to add: it ends in one)
Within(x, r) == IF r = <<Sep>> THEN HasPrefix(x, r) ELSE BelowOrEqual(x, r)

\* C1 (as stated): a successful return other than the short-circuit equals the
\* cleaned root or begins with the cleaned root followed by a separator.
C1_PrefixedByRootSep == FinishedOk => BelowOrEqual(ret, CleanRoot)

\* C1 (amended): a successful return other than the short-circuit equals the
\* cleaned root, or begins with the cleaned root followed by a separator, or,
\* when the cleaned root is "/" itself, begins with "/".
C1_WithinCleanRoot == FinishedOk => Within(ret, CleanRoot)

\* a successful return below an unclean root, after a symlink was followed
C1_Witness == FinishedOk /\ root # CleanRoot /\ nReadlink > 0 /\ ret # CleanRoot

\* C2: the path returned by the absolute-symlink short-circuit is a
\* descendant of root.
C2_ShortCircuitWithinRoot == (Done /\ last = "ShortCircuit") => Within(ret, CleanRoot)

\* the lengths of the leading parts of x that end at a component below r
PrefixLens(x, r) ==
  { i \in (Len(r) + 1)..Len(x) : x[i] # Sep /\ (i = Len(x) \/ x[i + 1] = Sep) }

\* Lstat answers "an existing symlink" for name
ExistingSymlink(name) == LET e == Lstat(vfs, name) IN e.err = NoErr /\ e.symlink

\* C3: on a successful return other than the short-circuit, no leading part of
\* the result below the cleaned root is an existing symlink according to Lstat.
C3_NoSymlinkInResult ==
  FinishedOk => \A i \in PrefixLens(ret, CleanRoot) : ~ExistingSymlink(SubSeq(ret, 1, i))

\* a result two components below root, reached through a symlink
C3_Witness ==
  FinishedOk /\ nReadlink > 0 /\ Cardinality(PrefixLens(ret, CleanRoot)) >= 2

\* what a call returns
Outcome(s) == [ret |-> s.ret, err |-> s.err]

\* x without its leading ".." segments
RECURSIVE StripDotDots(_)
StripDotDots(x) ==
  IF x = <<".", ".">> THEN <<>>
  ELSE IF HasPrefix(x, <<".", ".", Sep>>) THEN StripDotDots(SubSeq(x, 4, Len(x)))
  ELSE x

\* the first component of the argument is a symlink to ".."
FirstIsLinkToParent ==
  /\ NextP(arg) = <<"a">>
  /\ Lstat(vfs, NameA(root)) = LinkEntry(<<".", ".">>, FALSE)

\* C4: leading ".." segments change nothing: the call returns what it returns
\* for the path without them; a symlink to ".." directly below root is clamped
\* the same way (a/x resolves as x does, unless the call runs into the depth
\* ceiling); and the clamp itself raises no error.
C4_DotDotClamped ==
  /\ (Done /\ StripDotDots(arg) # arg) =>
        Outcome(St) = Outcome(SecureJoinVFS(root, StripDotDots(arg), vfs))
  /\ (Done /\ FirstIsLinkToParent /\ last # "DepthFail") =>
        Outcome(St) = Outcome(SecureJoinVFS(root, NextRest(arg), vfs))
  /\ last = "Clamp" => (pc = "loop" /\ err = NoErr /\ path = <<>>)

\* a path with a leading "..", then the symlink a -> "..": the call succeeds
C4_Witness ==
  /\ Done /\ err = NoErr /\ nReadlink > 0
  /\ HasPrefix(arg, <<".", ".", Sep>>)
  /\ NextP(StripDotDots(arg)) = <<"a">>
  /\ Lstat(vfs, NameA(root)) = LinkEntry(<<".", ".">>, FALSE)

\* filepath.Join(a, b) for non-empty a and b
GoJoin(a, b) == Clean(a \o <<Sep>> \o b)

\* the call has met no symlink and no Lstat error outside the not-found class
NoSymlinkMet == nReadlink = 0 /\ pc # "readlink" /\ last # "LstatFail"

\* C5 (as stated): with no symlink among the components examined, the call
\* succeeds with the lexical join of root and the cleaned untrustedPath.
C5_JoinOfCleanedPath ==
  (Done /\ NoSymlinkMet) => (err = NoErr /\ ret = GoJoin(root, Clean(arg)))

\* C5 (amended): with no symlink among the components examined, the call
\* succeeds with the lexical join of root and untrustedPath cleaned as a
\* rooted path, Clean("/" + untrustedPath): ".." never climbs above root.
C5_JoinOfRootedCleanedPath ==
  (Done /\ NoSymlinkMet) => (err = NoErr /\ ret = GoJoin(root, Clean(<<Sep>> \o arg)))

\* two components looked up, none of them a symlink
C5_Witness == Done /\ NoSymlinkMet /\ nLstat >= 2

\* the link at fullP, about to be read, has an absolute target that does not
\* begin with root and a separator
AbsoluteOutsideLink ==
  /\ pc = "readlink"
  /\ LET e == Lstat(vfs, fullP)
     IN e.err = NoErr /\ e.symlink /\ e.rlerr = NoErr /\ IsAbs(e.dest)
        /\ ~HasPrefix(e.dest, root \o <<Sep>>)

\* C6: an absolute symlink target that does not begin with root and a
\* separator is re-rooted: the buffer is emptied and the target, a separator
\* and the unparsed rest become the path still to resolve; so a -> /b, with no
\* symlink at root/b, resolves to root/b.
C6_ReRooted ==
  /\ [][AbsoluteOutsideLink =>
          /\ pc' = "loop" /\ err' = NoErr
          /\ path' = <<>>
          /\ unsafePath' = Lstat(vfs, fullP).dest \o <<Sep>> \o unsafePath]_vars
  /\ []((/\ Done /\ arg = <<"a">>
         /\ Lstat(vfs, NameA(root)) = LinkEntry(<<Sep, "b">>, FALSE)
         /\ Lstat(vfs, NameB(root)) \in {NodeEntry(TRUE), NodeEntry(FALSE)})
        => (err = NoErr /\ ret = NameB(root)))

\* the link b/a -> /b was expanded with b already in the buffer
C6_Witness ==
  /\ last = "ExpandAbsolute" /\ fullP = NameBA(root) /\ path = <<>>
  /\ HasPrefix(unsafePath, <<Sep, "b", Sep>>) /\ HasPrefix(arg, <<"b", Sep>>)

\* what the target of a link is, looked up by its cleaned name: a directory
PointsToDirectory(dest) ==
  LET e == Lstat(vfs, Clean(dest)) IN e.err = NoErr /\ ~e.symlink /\ e.dir

\* C7: a link whose absolute target begins with root and a separator is
\* returned as the result exactly when the link points to a non-directory; a
\* link to a directory is re-rooted.
C7_ShortCircuitIffNonDirectory ==
  (/\ last \in {"ShortCircuit", "ExpandAbsolute"}
   /\ HasPrefix(Lstat(vfs, fullP).dest, root \o <<Sep>>))
  => (last = "ShortCircuit" <=> ~PointsToDirectory(Lstat(vfs, fullP).dest))

\* the capability is the chain of len links (relative or absolute): it knows
\* len + 1 names and its last link names f, or link 1 when closed
IsChain(len, closed) ==
  /\ Cardinality(DOMAIN vfs) = len + 1
  /\ ChainRoot \o <<Sep>> \o LinkName(len) \in DOMAIN vfs
  /\ LET e == vfs[ChainRoot \o <<Sep>> \o LinkName(len)]
     IN e.symlink /\ (e.dest = <<"f">> <=> ~closed)

\* C8: only dereferences count and the count is never reset (n is the number
\* of Readlink calls of the call so far); a chain of 254 links that ends at a
\* regular file resolves to it; a cycle of 256 links fails with ELOOP.
C8_DepthCeiling ==
  /\ n = nReadlink
  /\ (Done /\ IsChain(254, FALSE)) => (err = NoErr /\ ret = ChainRoot \o <<Sep, "f">>)
  /\ (Done /\ IsChain(256, TRUE)) =>
        (ret = <<>> /\ err.Err = "ELOOP" /\ err.Op = "SecureJoin" /\ last = "DepthFail")

\* the 254 links were followed after a component that is no symlink and a ".."
C8_Witness ==
  /\ Done /\ err = NoErr /\ n = 254 /\ nLstat = 256
  /\ IsChain(254, FALSE)

NotFoundClass == {"ErrNotExist", "ENOENT", "ENOTDIR"}

\* C9: an Lstat error outside the not-found class, and any Readlink error, is
\* returned as it is with an empty path by the step that met it; nothing is
\* called after a return.
C9_ErrorsPropagate ==
  [][/\ pc # "done"
     /\ (pc = "lstat" /\ Lstat(vfs, fullP).err # NoErr
         /\ Lstat(vfs, fullP).err.Err \notin NotFoundClass)
        => (/\ pc' = "done" /\ ret' = <<>> /\ err' = Lstat(vfs, fullP).err
            /\ nLstat' = nLstat + 1 /\ nReadlink' = nReadlink)
     /\ (pc = "readlink" /\ Readlink(vfs, fullP).err # NoErr)
        => (/\ pc' = "done" /\ ret' = <<>> /\ err' = Readlink(vfs, fullP).err
            /\ nLstat' = nLstat /\ nReadlink' = nReadlink + 1)]_vars

\* the Lstat of the second link of a chain failed
C9_Witness == Done /\ last = "LstatFail" /\ nReadlink >= 1 /\ err = Errno("EACCES")

\* C10: an Lstat error of the not-found class is never returned: the
\* component joins the buffer with a separator, Readlink is not called, and
\* the loop goes on.
C10_NotFoundAccepted ==
  /\ [][(pc = "lstat" /\ Lstat(vfs, fullP).err.Err \in NotFoundClass)
        => (/\ pc' = "loop" /\ err' = NoErr
            /\ path' = path \o p \o <<Sep>>
            /\ unsafePath' = unsafePath
            /\ nReadlink' = nReadlink)]_vars
  /\ [](last = "LstatFail" => err.Err \notin NotFoundClass)

\* a component whose Lstat failed with ENOTDIR was accepted
C10_Witness ==
  /\ last = "AcceptComponent" /\ lastOp = "Lstat"
  /\ Lstat(vfs, lastPath).err.Err = "ENOTDIR"

\* C11: when the call fails at the depth ceiling, the error carries the root
\* and the path exactly as the caller passed them, whatever was consumed or
\* expanded before.
C11_LoopErrorCarriesOriginal ==
  last = "DepthFail" => err = LoopError(root, arg)

\* C12: a successful result is a fixed point: the call with the result as
\* root and the empty path succeeds, calls neither Lstat nor Readlink, and
\* returns the result unchanged.
C12_Idempotent ==
  (Done /\ err = NoErr) =>
     LET t == SecureJoinVFS(ret, <<>>, vfs)
     IN /\ t.pc = "done" /\ t.err = NoErr /\ t.ret = ret
        /\ t.nLstat = 0 /\ t.nReadlink = 0

\* a result that came out of the buffer after a dereference, under a root
\* that is not itself clean
C12_Witness ==
  /\ Done /\ err = NoErr /\ last = "Finish" /\ nReadlink >= 1
  /\ root # CleanRoot /\ ret # CleanRoot

\* the outcome of a call without the path an error names
OutcomeKind(s) == [ret |-> s.ret, Err |-> s.err.Err, Op |-> s.err.Op]

\* the dereference of this step is the first of the call and its target is relative
FirstHopRelative == pc = "readlink" /\ nReadlink = 0 /\ last' = "ExpandRelative"

\* the call whose path has the target written in place of the symlink
\* component: the accepted components, the target, the unparsed rest
TargetInPlace == SecureJoinVFS(root, path \o Expand(fi.dest, unsafePath), vfs)

\* the component the loop takes is always the first of the unparsed path
HeadIsLookedUp == (pc = "loop" /\ pc' = "lstat") => p' = NextP(unsafePath)

\* the target goes in front of the unparsed path, with no lookup in between
TargetGoesFirst ==
  last' = "ExpandRelative" =>
    /\ unsafePath' = fi.dest \o <<Sep>> \o unsafePath
    /\ path' = path /\ pc' = "loop" /\ nLstat' = nLstat

\* C13 as stated: the components of a relative target are looked up before
\* those of the remaining path, and the outcome is always that of the call
\* with the target written in place of the symlink.
C13_TargetInPlaceAlways ==
  [][/\ HeadIsLookedUp /\ TargetGoesFirst
     /\ FirstHopRelative => OutcomeKind(Run(root, vfs, St')) = OutcomeKind(TargetInPlace)]_vars

\* C13: the components of a relative target are looked up before those of
\* the remaining path, and unless the call ends at the depth ceiling its
\* outcome is that of the call with the target written in place of the symlink.
C13_TargetInPlace ==
  [][/\ HeadIsLookedUp /\ TargetGoesFirst
     /\ FirstHopRelative =>
          LET t == Run(root, vfs, St')
          IN t.last # "DepthFail" => Outcome(t) = Outcome(TargetInPlace)]_vars

\* a goes to b, b goes to "..", and a path remained behind a
C13_Witness ==
  /\ Done /\ err = NoErr /\ nReadlink >= 3
  /\ NameA(root) \in DOMAIN vfs /\ vfs[NameA(root)].dest = <<"b">>
  /\ NextRest(arg) # <<>>

\* C14 as stated: the count of expansions never exceeds 255 and Readlink is
\* called at most 255 times in a call.
C14_AtMostCeiling == n <= MaxSymlinks /\ nReadlink <= MaxSymlinks

\* C14: the count of expansions never exceeds 256 and Readlink is called at
\* most 256 times; once the count exceeds 255 no further lookup is made, and
\* the loop-detected error is returned only then, after the 256th Readlink.
C14_AtMostCeilingPlusOne ==
  /\ n <= MaxSymlinks + 1 /\ nReadlink <= MaxSymlinks + 1
  /\ pc \in {"lstat", "readlink"} => n <= MaxSymlinks
  /\ last = "DepthFail" =>
       (n = MaxSymlinks + 1 /\ nReadlink = MaxSymlinks + 1 /\ lastOp = "Readlink")

\* the call of the 256-link chain ending in a file fails after 256 reads
C14_Witness ==
  /\ Done /\ last = "DepthFail" /\ nReadlink = MaxSymlinks + 1
  /\ IsChain(256, FALSE)

\* the positions of an iteration in the order the code passes them after the loop head
Rank(at) == IF at = "lstat" THEN 3 ELSE IF at = "readlink" THEN 2 ELSE IF at = "loop" THEN 1 ELSE 0

\* a step counts a dereference below the ceiling, or shortens the unparsed
\* path without counting, or moves on inside the iteration
Progresses ==
  \/ n' = n + 1 /\ n' <= MaxSymlinks + 1
  \/ n' = n /\ Len(unsafePath') < Len(unsafePath)
  \/ n' = n /\ unsafePath' = unsafePath /\ Rank(pc') < Rank(pc)

\* the branches the code can take from a position
Branches(at) ==
  IF at = "loop" THEN {"Finish", "DepthFail", "Clamp", "NextComponent"}
  ELSE IF at = "lstat" THEN {"LstatFail", "AcceptComponent", "FoundSymlink"}
  ELSE {"ReadlinkFail", "ShortCircuit", "ExpandAbsolute", "ExpandRelative"}

\* a call that has not returned has a step to take
CanStep == Done \/ Body(root, vfs, St).last \in Branches(pc)

\* C15: every call terminates: each step of an iteration consumes a component
\* without expanding, or counts an expansion below the ceiling, or moves on
\* inside the iteration; a call that has not returned can take a step; and
\* the call returns after finitely many steps.
C15_Terminates ==
  /\ [][Progresses]_vars
  /\ [](CanStep)
  /\ <>Done

\* a call on a cycle of links has returned
C15_Witness == Done /\ last = "DepthFail" /\ IsChain(2, TRUE) /\ nLstat > MaxSymlinks

\* C16: a step that calls Readlink comes right after the Lstat of the same
\* path, that Lstat succeeded and reported a symlink, and no other lookup
\* lies between the two.
C16_ReadlinkAfterLstat ==
  [][nReadlink' # nReadlink =>
       /\ nReadlink' = nReadlink + 1 /\ nLstat' = nLstat
       /\ lastOp = "Lstat" /\ lastOp' = "Readlink"
       /\ lastPath' = lastPath /\ lastPath = fullP
       /\ ExistingSymlink(lastPath)]_vars

\* a second link is read in a call that also looked up entries it did not read
C16_Witness == lastOp = "Readlink" /\ nReadlink = 2 /\ nLstat > 2

\* x is below r and is not r
StrictlyWithin(x, r) == x # r /\ Within(x, r)

\* C17: every path given to Lstat or Readlink, and every path about to be
\* given to them, lies strictly below the cleaned root: never root itself,
\* never a path outside it.
C17_LookupsBelowRoot ==
  /\ lastOp # "none" => StrictlyWithin(lastPath, CleanRoot)
  /\ pc \in {"lstat", "readlink"} => StrictlyWithin(fullP, CleanRoot)

\* a lookup made after a link to ".." was expanded
C17_Witness ==
  /\ lastOp = "Lstat" /\ nReadlink >= 1 /\ last = "AcceptComponent"
  /\ NameA(root) \in DOMAIN vfs /\ vfs[NameA(root)].dest = <<".", ".">>

\* the link about to be read is a non-directory whose target is absolute and
\* begins with root and a separator
ShortCircuitCase ==
  /\ pc = "readlink" /\ ~fi.dir
  /\ LET rl == Readlink(vfs, fullP)
     IN rl.err = NoErr /\ IsAbs(rl.dest) /\ HasPrefix(rl.dest, root \o <<Sep>>)

\* C18: when the short-circuit is taken the call returns the cleaned target
\* at once: what remains of the path is left unread, whatever it is, and no
\* lookup is made after the Readlink, in this step or after the return.
C18_ShortCircuitDropsRest ==
  [][/\ pc # "done"
     /\ ShortCircuitCase =>
          /\ pc' = "done" /\ err' = NoErr /\ ret' = Clean(Readlink(vfs, fullP).dest)
          /\ unsafePath' = unsafePath
          /\ nLstat' = nLstat /\ nReadlink' = nReadlink + 1]_vars

\* the short-circuit was taken with components still unread
C18_Witness ==
  /\ Done /\ last = "ShortCircuit" /\ unsafePath # <<>>
  /\ NextRest(arg) = unsafePath /\ nLstat = 1

\* the component is neither empty nor "."
RealComponent(c) == c # <<>> /\ c # <<".">>

\* x with every empty and every "." component removed
Squeeze(x) == JoinSep(SelectSeq(Split(x), RealComponent))

\* C19: the call ends as the call on the path without its empty and "."
\* components does (the same result, or an error of the same kind), and a
\* successful result is lexically clean.
C19_DotsCollapse ==
  Done =>
    /\ OutcomeKind(St) = OutcomeKind(SecureJoinVFS(root, Squeeze(arg), vfs))
    /\ err = NoErr => Clean(ret) = ret

\* a "." and a doubled separator lay around a link that was followed
C19_Witness ==
  /\ Done /\ err = NoErr /\ nReadlink >= 1 /\ ret # CleanRoot
  /\ arg = <<Sep, Sep, "b", Sep, ".", Sep, "a">>

\* s is the beginning of t
IsPrefix(s, t) == Len(s) <= Len(t) /\ SubSeq(t, 1, Len(s)) = s

\* C20: however the steps of the calls are interleaved, each call makes the
\* vfs calls it makes when run alone, in the same order, and returns what it
\* returns when run alone.
C20_CallsIndependent ==
  \A i \in DOMAIN calls :
    LET c == calls[i]
        a == Alone(root, vfs, c.arg)
    IN /\ IsPrefix(c.log, a.log)
       /\ c.s.pc = "done" => (c.log = a.log /\ Outcome(c.s) = Outcome(a.s))

\* two calls are both in the middle of their work: one has a buffer and is
\* about to look up, the other is about to read a link
C20_Witness ==
  /\ DOMAIN calls = 1..MaxCalls
  /\ calls[1].s.pc = "lstat" /\ calls[1].s.path # <<>> /\ calls[1].log # <<>>
  /\ calls[2].s.pc = "readlink" /\ calls[2].log # <<>>

====
